---- MODULE Spec2Model ----
(***************************************************************************)
(* BrainDriveSettings plugin lifecycle manager (src/lifecycle_manager.py). *)
(*                                                                         *)
(* The four verbs install_plugin, delete_plugin, get_plugin_status and     *)
(* update_plugin are modelled statement by statement: every awaited        *)
(* db.execute / db.commit is one step of the calling coroutine, so that    *)
(* two coroutines can interleave exactly where the event loop lets them.   *)
(* The relational store is a committed state plus, per session, the        *)
(* uncommitted inserts and deletes of its open transaction (a session      *)
(* reads the committed rows and its own writes).                           *)
(***************************************************************************)
EXTENDS Integers, Sequences, FiniteSets, TLC

\* ------------------------------------------------------------------ bounds
Users == {"u1", "u2"}
Managers == {"m1", "m2"}
\* A coroutine runs one verb at a time on a session of its own.
Procs == {"p1", "p2"}
\* Statements, commits and file copies that may raise, over a whole behaviour.
MaxFaults == 1
\* Host-side edits of stored configuration, over a whole behaviour.
MaxEdits == 1

\* -------------------------------------------------------- static descriptors
Slug == "BrainDriveSettings"

\* A JSON value is named by a string; a stored text is NULL, an undecodable
\* text, or a JSON text of a value in json.dumps' own format ("canon") or in
\* another format of the same value ("compact").
Null == [k |-> "null", v |-> "-", f |-> "-"]
Bad == [k |-> "bad", v |-> "-", f |-> "-"]
Json(v, f) == [k |-> "json", v |-> v, f |-> f]

\* Python truthiness of a column value: None is falsy, a non-empty str truthy.
Truthy(text) == text.k # "null"

\* json.loads: the value of a JSON text, JSONDecodeError otherwise.
Loads(text) ==
    IF text.k = "json" THEN [ok |-> TRUE, v |-> text.v] ELSE [ok |-> FALSE, v |-> "-"]

\* json.dumps: always the one format, whatever format the value was read from.
Dumps(v) == Json(v, "canon")

ModuleData ==
    << [name |-> "ComponentTheme", props |-> "{}", config_fields |-> "{}",
        messages |-> "msgs", layout |-> "layout_6_1_12_1"],
       [name |-> "ComponentGeneralSettings", props |-> "{}", config_fields |-> "{}",
        messages |-> "msgs", layout |-> "layout_6_1_12_1"],
       [name |-> "ComponentOllamaServer", props |-> "{}", config_fields |-> "{}",
        messages |-> "msgs", layout |-> "layout_6_4_8_5"] >>

ModuleNames == {ModuleData[i].name : i \in DOMAIN ModuleData}

SettingsDefinitions == << "theme_settings", "ollama_servers_settings", "general_settings" >>

DefIds == {SettingsDefinitions[i] : i \in DOMAIN SettingsDefinitions}

\* settings_instances of _create_settings_instances, in the order it lists them.
SettingsInstances ==
    << [definition_id |-> "theme_settings", scope |-> "user"],
       [definition_id |-> "ollama_servers_settings", scope |-> "user"],
       [definition_id |-> "general_settings", scope |-> "user"] >>

\* Files _copy_plugin_files_impl finds under the plugin's source directory; the
\* last one is the manager's own file, copied outside the per-file try.
LoopFiles == {"package.json", "dist/remoteEntry.js"}
OwnFile == "lifecycle_manager.py"

\* ------------------------------------------------------------------- state
VARIABLES
    store,    \* committed rows: [plugin, module, defs, inst]
    pend,     \* per session: rows inserted and ids deleted, not yet committed
    active,   \* per manager instance: BaseLifecycleManager.active_users
    files,    \* files present in the shared plugin directory
    faults,   \* faults injected so far
    edits,    \* host edits made so far
    pc,       \* per coroutine: the statement it is about to run
    loc,      \* per coroutine: its local variables
    ret,      \* per coroutine: the verb's return value once pc = "done"
    pre,      \* per coroutine: the state when the verb was called
    removed   \* users whose last successful install or delete was a delete

vars == << store, pend, active, files, faults, edits, pc, loc, ret, pre, removed >>

Tables == {"plugin", "module", "defs", "inst"}
EmptyTables == [t \in Tables |-> {}]
NoPending == [ins |-> EmptyTables, del |-> EmptyTables]

NoId == << "-", "-" >>
NoUser == "-"

\* ------------------------------------------------------- relational store
\* What session p reads: committed rows it has not deleted, and its own inserts.
View(p) ==
    [t \in Tables |-> {r \in store[t] : r.id \notin pend[p].del[t]} \cup pend[p].ins[t]]

\* A row another open transaction has inserted or deleted is locked.
Locked(p, t, id) ==
    \E q \in Procs \ {p} :
        \/ id \in pend[q].del[t]
        \/ \E r \in pend[q].ins[t] : r.id = id

\* INSERT succeeds when the primary key is free and no other transaction holds it.
CanInsert(p, t, row) ==
    /\ \A r \in View(p)[t] : r.id # row.id
    /\ ~Locked(p, t, row.id)

Inserted(p, t, row) == [pend[p] EXCEPT !.ins[t] = @ \cup {row}]

\* DELETE / UPDATE of the rows with these ids succeeds when none is locked.
CanWrite(p, t, ids) == \A id \in ids : ~Locked(p, t, id)

\* A DELETE that, on the plugin table, cascades to the settings instances of
\* the rows' users.
DeletedCascading(p, t, ids) ==
    LET d == [pend[p] EXCEPT !.ins[t] = {r \in @ : r.id \notin ids},
                             !.del[t] = @ \cup {r.id : r \in {x \in store[t] : x.id \in ids}}]
    IN  IF t = "plugin"
        THEN [d EXCEPT !.del.inst = @ \cup
                {r.id : r \in {x \in store.inst : \E id \in ids : x.user_id = id[1]}}]
        ELSE d

Deleted(p, t, ids) ==
    [pend[p] EXCEPT !.ins[t] = {r \in @ : r.id \notin ids},
                    !.del[t] = @ \cup {r.id : r \in {x \in store[t] : x.id \in ids}}]

\* UPDATE: the rows with these ids are replaced by the rows new (same ids).
Updated(p, t, ids, new) ==
    LET d == Deleted(p, t, ids)
    IN  [d EXCEPT !.ins[t] = @ \cup new]

\* uuid4: an id no row of settings_instances holds, committed or pending. The
\* id is written with the row's definition and user, so that which id a row
\* gets does not depend on the order in which unrelated rows were created.
UsedInstIds ==
    {r.id : r \in store.inst} \cup UNION {{r.id : r \in pend[q].ins.inst} : q \in Procs}
FreshInstId(d, u) ==
    CHOOSE id \in {<< d, u, n >> : n \in 1..(Cardinality(UsedInstIds) + 1)} :
        /\ id \notin UsedInstIds
        /\ \A m \in 1..(id[3] - 1) : << d, u, m >> \in UsedInstIds

\* ---------------------------------------------------------------- rows
\* A plugin id that is not a function of (user, slug): the second row written
\* while any other is pending gets an id of its own.
PluginIdPerRow(u) ==
    << u, IF \E q \in Procs : pend[q].ins.plugin # {} THEN "BrainDriveSettings-2" ELSE Slug >>

PluginId(u) == << u, Slug >>
ModuleId(u, name) == << u, name >>

\* Every row carries, beside its columns, the identity of the physical row
\* (rid): two rows with equal columns are still two rows. id is the primary key.
FreshRid(t, id) ==
    LET used == {r.rid : r \in {x \in store[t] \cup UNION {pend[q].ins[t] : q \in Procs} :
                                    x.id = id}}
    IN  CHOOSE n \in 1..(Cardinality(used) + 1) :
            n \notin used /\ \A m \in 1..(n - 1) : m \in used

PluginRow(u) ==
    [id |-> PluginId(u), rid |-> FreshRid("plugin", PluginId(u)),
     user_id |-> u, plugin_slug |-> Slug,
     config_fields |-> Null, messages |-> Null, dependencies |-> Null]

\* A module row that does not reference the user's plugin row.
ModuleRowUnlinked(u, i) ==
    [id |-> ModuleId(u, ModuleData[i].name),
     rid |-> FreshRid("module", ModuleId(u, ModuleData[i].name)),
     plugin_id |-> NoId, user_id |-> u,
     name |-> ModuleData[i].name,
     props |-> Dumps(ModuleData[i].props),
     config_fields |-> Dumps(ModuleData[i].config_fields),
     messages |-> Dumps(ModuleData[i].messages),
     layout |-> Dumps(ModuleData[i].layout)]

ModuleRow(u, i) ==
    [id |-> ModuleId(u, ModuleData[i].name),
     rid |-> FreshRid("module", ModuleId(u, ModuleData[i].name)),
     plugin_id |-> PluginId(u), user_id |-> u,
     name |-> ModuleData[i].name,
     props |-> Dumps(ModuleData[i].props),
     config_fields |-> Dumps(ModuleData[i].config_fields),
     messages |-> Dumps(ModuleData[i].messages),
     layout |-> Dumps(ModuleData[i].layout)]

DefinitionRow(i) ==
    [id |-> SettingsDefinitions[i], rid |-> FreshRid("defs", SettingsDefinitions[i])]

InstanceRow(u, i, id) ==
    [id |-> id, definition_id |-> SettingsInstances[i].definition_id,
     user_id |-> u, scope |-> SettingsInstances[i].scope, value |-> "default"]

\* ------------------------------------------------------------ return values
Res(success, error) ==
    [success |-> success, error |-> error, installed |-> FALSE, plugin_id |-> NoId,
     modules_created |-> << >>, has_settings |-> FALSE, settings_created |-> << >>,
     files_copied |-> {}, deleted_modules |-> 0]

NoRes == Res(FALSE, "-")

\* str(e) of an exception raised by the database driver or the filesystem.
DbError == "db error"
IoError == "io error"

\* export_result.get('data', {}) if export_result['success'] else {}
NoPluginConfig ==
    [present |-> FALSE, config_fields |-> "-", messages |-> "-", dependencies |-> "-"]
NoData == [ok |-> FALSE, plugin_config |-> NoPluginConfig, modules_config |-> << >>]

LocInit ==
    [verb |-> "none", user |-> NoUser, mgr |-> "-", target |-> "-", plugin_id |-> NoId,
     copied |-> {}, i |-> 0, created |-> << >>, modules |-> << >>, deleted |-> 0,
     udata |-> NoData, todo |-> {}, result |-> NoRes]

NoPre == [store |-> EmptyTables, pend |-> NoPending, files |-> {},
          active |-> [m \in Managers |-> {}], faults |-> 0]

Init ==
    /\ store = EmptyTables
    /\ pend = [p \in Procs |-> NoPending]
    /\ active = [m \in Managers |-> {}]
    /\ files = {}
    /\ faults = 0
    /\ edits = 0
    /\ pc = [p \in Procs |-> "idle"]
    /\ loc = [p \in Procs |-> LocInit]
    /\ ret = [p \in Procs |-> NoRes]
    /\ pre = [p \in Procs |-> NoPre]
    /\ removed = {}

\* ------------------------------------------------------------------ helpers
\* Whether the statement about to run raises: any may, while the budget lasts.
FaultChoice == IF faults < MaxFaults THEN BOOLEAN ELSE {FALSE}

Count(f) == faults' = faults + (IF f THEN 1 ELSE 0)

Goto(p, label, l) ==
    /\ pc' = [pc EXCEPT ![p] = label]
    /\ loc' = [loc EXCEPT ![p] = l]
    /\ UNCHANGED << ret, pre >>

\* The verb returns value r to its caller.
Return(p, l, r) ==
    /\ pc' = [pc EXCEPT ![p] = "done"]
    /\ loc' = [loc EXCEPT ![p] = l]
    /\ ret' = [ret EXCEPT ![p] = r]
    /\ UNCHANGED pre

\* An existence check whose SELECT does not filter by user.
CheckExistingAnyUser(p, u, fault) ==
    LET rows == {r \in View(p).plugin : r.plugin_slug = Slug}
    IN  IF fault \/ rows = {}
        THEN [exists |-> FALSE, plugin_id |-> NoId]
        ELSE [exists |-> TRUE, plugin_id |-> (CHOOSE r \in rows : TRUE).id]

\* _check_existing_plugin: SELECT id FROM plugin WHERE user_id AND plugin_slug;
\* an exception of the query is caught and answered {'exists': False}.
CheckExisting(p, u, fault) ==
    LET rows == {r \in View(p).plugin : r.user_id = u /\ r.plugin_slug = Slug}
    IN  IF fault \/ rows = {}
        THEN [exists |-> FALSE, plugin_id |-> NoId]
        ELSE [exists |-> TRUE, plugin_id |-> (CHOOSE r \in rows : TRUE).id]

\* ------------------------------------------------------------ calling a verb
\* The state a call starts from, kept to state what the call changed.
Snapshot(p) ==
    [store |-> store, pend |-> pend[p], files |-> files, active |-> active,
     faults |-> faults]

Call(p, verb, u, m, target, first, snap) ==
    /\ pc[p] = "idle"
    /\ pc' = [pc EXCEPT ![p] = first]
    /\ loc' = [loc EXCEPT ![p] = [LocInit EXCEPT !.verb = verb, !.user = u,
                                                 !.mgr = m, !.target = target]]
    /\ pre' = [pre EXCEPT ![p] = snap]
    /\ UNCHANGED << store, pend, active, files, faults, edits, ret, removed >>

CallInstall(p, u, m, snap) == Call(p, "install", u, m, m, "iCheck", snap)

\* delete_plugin, get_plugin_status and update_plugin read no field of the
\* manager they are called on but its static descriptors.
\* CallUninstallation: the host calls the hook _perform_user_uninstallation
\* itself, inside a transaction of its own making.
CallDelete(p, u) == Call(p, "delete", u, "-", "-", "xCheck", Snapshot(p))
CallStatus(p, u) == Call(p, "status", u, "-", "-", "sCheck", Snapshot(p))
CallUninstallation(p, u) == Call(p, "hook", u, "-", "-", "xCheck", Snapshot(p))
CallUpdate(p, u, target) == Call(p, "update", u, "-", target, "uExpPlug", Snapshot(p))

\* The caller takes the return value; the coroutine is free for the next call.
Ack(p) ==
    /\ pc[p] = "done"
    /\ pc' = [pc EXCEPT ![p] = "idle"]
    /\ loc' = [loc EXCEPT ![p] = LocInit]
    /\ ret' = [ret EXCEPT ![p] = NoRes]
    /\ pre' = [pre EXCEPT ![p] = NoPre]
    /\ UNCHANGED << store, pend, active, files, faults, edits, removed >>

\* ------------------------------------------------------------ install_plugin
\* _import_user_data's loop over modules_config, then update_plugin's commit.
ImportLabel(todo) == IF todo = {} THEN "uCommit" ELSE "uImpMod"

\* How install_plugin's result r reaches the caller: update_plugin goes on to
\* the import when the install succeeded and the export gave data, and returns
\* r otherwise.
EndInstall(p, l, r) ==
    IF l.verb = "update" /\ r.success /\ l.udata.ok
    THEN IF l.udata.plugin_config.present
         THEN Goto(p, "uImpPlug", [l EXCEPT !.result = r,
                                            !.todo = DOMAIN l.udata.modules_config])
         ELSE Goto(p, ImportLabel(DOMAIN l.udata.modules_config),
                   [l EXCEPT !.result = r, !.todo = DOMAIN l.udata.modules_config])
    ELSE Return(p, l, r)

\* await db.rollback(), then the failure is returned.
RollbackAndEnd(p, l, r) ==
    /\ pend' = [pend EXCEPT ![p] = NoPending]
    /\ EndInstall(p, l, r)

\* install_plugin's own existence check.
InstallCheck(p) ==
    /\ pc[p] = "iCheck"
    /\ \E f \in FaultChoice :
        LET l == loc[p]
            chk == CheckExisting(p, l.user, f)
        IN  /\ Count(f)
            /\ IF chk.exists
               THEN EndInstall(p, l, [Res(FALSE, "Plugin already installed for user")
                                       EXCEPT !.plugin_id = chk.plugin_id])
               ELSE Goto(p, "iCopy", l)
            /\ UNCHANGED << store, pend, active, files, edits, removed >>

\* shared_path.mkdir and _copy_plugin_files_impl: a file whose copy fails inside
\* the loop is skipped; the manager's own file is copied after the loop, outside
\* the per-file try, so a failure there fails the whole copy.
InstallCopy(p) ==
    /\ pc[p] = "iCopy"
    /\ \E failed \in SUBSET (LoopFiles \cup {OwnFile}) :
        LET l == loc[p]
            copied == (LoopFiles \cup {OwnFile}) \ failed
        IN  /\ faults + Cardinality(failed) <= MaxFaults
            /\ faults' = faults + Cardinality(failed)
            /\ files' = files \cup copied
            /\ IF OwnFile \in failed
               THEN EndInstall(p, l, Res(FALSE, IoError))
               ELSE Goto(p, "cCheck", [l EXCEPT !.copied = copied])
            /\ UNCHANGED << store, pend, active, edits, removed >>

\* install_for_user's guard on active_users, then _create_database_records'
\* existence check.
CreateCheck(p) ==
    /\ pc[p] = "cCheck"
    /\ \E f \in FaultChoice :
        LET l == loc[p]
            chk == CheckExisting(p, l.user, f)
        IN  /\ IF l.user \in active[l.mgr]
               THEN /\ RollbackAndEnd(p, l, Res(FALSE, "Plugin already installed for user"))
                    /\ f = FALSE
               ELSE IF chk.exists
               THEN RollbackAndEnd(p, l, Res(FALSE, "Plugin already exists for user"))
               ELSE /\ Goto(p, "dSel", [l EXCEPT !.i = 1])
                    /\ UNCHANGED pend
            /\ Count(f)
            /\ UNCHANGED << store, active, files, edits, removed >>

\* After definition i: the next definition, then the settings instances.
AfterDefinition(p, l) ==
    IF l.i < Len(SettingsDefinitions)
    THEN Goto(p, "dSel", [l EXCEPT !.i = @ + 1])
    ELSE Goto(p, "nSel", [l EXCEPT !.i = 1])

\* The inverted test: insert only what is already there.
DefinitionPresent(rows) == rows # {}

\* The create-if-absent test of _ensure_settings_definitions: `if not existing`.
DefinitionMissing(rows) == rows = {}

\* _ensure_settings_definitions: SELECT id FROM settings_definitions WHERE id.
\* scalar_one_or_none raises on more than one row; any exception is caught,
\* returned as a failure, and install_plugin rolls back.
DefinitionSelect(p) ==
    /\ pc[p] = "dSel"
    /\ \E f \in FaultChoice :
        LET l == loc[p]
            rows == {r \in View(p).defs : r.id = SettingsDefinitions[l.i]}
        IN  /\ Count(f)
            /\ IF f \/ Cardinality(rows) > 1
               THEN RollbackAndEnd(p, l, Res(FALSE, DbError))
               ELSE /\ IF DefinitionMissing(rows)
                       THEN Goto(p, "dIns", l)
                       ELSE AfterDefinition(p, l)
                    /\ UNCHANGED pend
            /\ UNCHANGED << store, active, files, edits, removed >>

\* _ensure_settings_definitions: INSERT INTO settings_definitions.
DefinitionInsert(p) ==
    /\ pc[p] = "dIns"
    /\ \E f \in FaultChoice :
        LET l == loc[p]
            row == DefinitionRow(l.i)
        IN  /\ Count(f)
            /\ IF f \/ ~CanInsert(p, "defs", row)
               THEN RollbackAndEnd(p, l, Res(FALSE, DbError))
               ELSE /\ pend' = [pend EXCEPT ![p] = Inserted(p, "defs", row)]
                    /\ AfterDefinition(p, l)
            /\ UNCHANGED << store, active, files, edits, removed >>

\* After instance i: the next instance, then the plugin row.
AfterInstance(p, l) ==
    IF l.i < Len(SettingsInstances)
    THEN Goto(p, "nSel", [l EXCEPT !.i = @ + 1])
    ELSE Goto(p, "pIns", [l EXCEPT !.i = 1])

\* The inverted test: insert only what is already there.
InstancePresent(rows) == rows # {}

\* No test: insert whatever is there.
InstanceAlways(rows) == TRUE

\* The create-if-absent test of _create_settings_instances: `if not existing`.
InstanceMissing(rows) == rows = {}

\* _create_settings_instances: SELECT id FROM settings_instances WHERE
\* definition_id AND user_id AND scope.
InstanceSelect(p) ==
    /\ pc[p] = "nSel"
    /\ \E f \in FaultChoice :
        LET l == loc[p]
            rows == {r \in View(p).inst :
                        /\ r.definition_id = SettingsInstances[l.i].definition_id
                        /\ r.user_id = l.user
                        /\ r.scope = SettingsInstances[l.i].scope}
        IN  /\ Count(f)
            /\ IF f \/ Cardinality(rows) > 1
               THEN RollbackAndEnd(p, l, Res(FALSE, DbError))
               ELSE /\ IF InstanceMissing(rows)
                       THEN Goto(p, "nIns", l)
                       ELSE AfterInstance(p, l)
                    /\ UNCHANGED pend
            /\ UNCHANGED << store, active, files, edits, removed >>

\* _create_settings_instances: INSERT INTO settings_instances, id a fresh uuid4.
InstanceInsert(p) ==
    /\ pc[p] = "nIns"
    /\ \E f \in FaultChoice :
        LET l == loc[p]
            row == InstanceRow(l.user, l.i,
                        FreshInstId(SettingsInstances[l.i].definition_id, l.user))
        IN  /\ Count(f)
            /\ IF f \/ ~CanInsert(p, "inst", row)
               THEN RollbackAndEnd(p, l, Res(FALSE, DbError))
               ELSE /\ pend' = [pend EXCEPT ![p] = Inserted(p, "inst", row)]
                    /\ AfterInstance(p, [l EXCEPT !.created =
                            Append(@, SettingsInstances[l.i].definition_id)])
            /\ UNCHANGED << store, active, files, edits, removed >>

\* _create_database_records: INSERT INTO plugin.
PluginInsert(p) ==
    /\ pc[p] = "pIns"
    /\ \E f \in FaultChoice :
        LET l == loc[p]
            row == PluginRow(l.user)
        IN  /\ Count(f)
            /\ IF f \/ ~CanInsert(p, "plugin", row)
               THEN RollbackAndEnd(p, l, Res(FALSE, DbError))
               ELSE /\ pend' = [pend EXCEPT ![p] = Inserted(p, "plugin", row)]
                    /\ Goto(p, "mIns", [l EXCEPT !.plugin_id = row.id, !.i = 1])
            /\ UNCHANGED << store, active, files, edits, removed >>

\* _create_database_records: INSERT INTO module, once per module descriptor.
\* After the last one _perform_user_installation returns success and
\* install_for_user adds the user to active_users.
ModuleInsert(p) ==
    /\ pc[p] = "mIns"
    /\ \E f \in FaultChoice :
        LET l == loc[p]
            row == ModuleRow(l.user, l.i)
            l2 == [l EXCEPT !.modules = Append(@, ModuleData[l.i].name)]
        IN  /\ Count(f)
            /\ IF f \/ ~CanInsert(p, "module", row)
               THEN /\ RollbackAndEnd(p, l, Res(FALSE, DbError))
                    /\ UNCHANGED active
               ELSE /\ pend' = [pend EXCEPT ![p] = Inserted(p, "module", row)]
                    /\ IF l.i < Len(ModuleData)
                       THEN /\ Goto(p, "mIns", [l2 EXCEPT !.i = @ + 1])
                            /\ UNCHANGED active
                       ELSE /\ Goto(p, "iVerify", l2)
                            /\ active' = [active EXCEPT ![l.mgr] = @ \cup {l.user}]
            /\ UNCHANGED << store, files, edits, removed >>

\* The success result of _create_database_records: plugin_id, modules_created
\* and settings_created (has_settings: the key is in the dictionary).
DatabaseRecordsResult(l) ==
    [Res(TRUE, "-") EXCEPT !.plugin_id = l.plugin_id,
                           !.modules_created = l.modules,
                           !.has_settings = TRUE,
                           !.settings_created = l.created]

\* What _perform_user_installation hands back through install_for_user, with
\* install_plugin's shared_path and files_copied added.
InstallResult(l) ==
    LET db == DatabaseRecordsResult(l)
    IN  [Res(TRUE, "-") EXCEPT !.plugin_id = db.plugin_id,
                               !.modules_created = db.modules_created,
                               !.files_copied = l.copied]

\* install_plugin: the verification query; when it finds no row the failure is
\* returned as it stands.
InstallVerify(p) ==
    /\ pc[p] = "iVerify"
    /\ \E f \in FaultChoice :
        LET l == loc[p]
            chk == CheckExisting(p, l.user, f)
        IN  /\ Count(f)
            /\ IF chk.exists
               THEN Goto(p, "iCommit", l)
               ELSE EndInstall(p, l, Res(FALSE, "Installation verification failed"))
            /\ UNCHANGED << store, pend, active, files, edits, removed >>

\* install_plugin: await db.commit(); a failing commit is rolled back.
InstallCommit(p) ==
    /\ pc[p] = "iCommit"
    /\ \E f \in FaultChoice :
        LET l == loc[p]
        IN  /\ Count(f)
            /\ IF f
               THEN /\ RollbackAndEnd(p, l, Res(FALSE, "Database operation failed"))
                    /\ UNCHANGED store
               ELSE /\ store' = View(p)
                    /\ pend' = [pend EXCEPT ![p] = NoPending]
                    /\ EndInstall(p, l, InstallResult(l))
            /\ removed' = IF f THEN removed ELSE removed \ {l.user}
            /\ UNCHANGED << active, files, edits >>

InstallStep(p) ==
    \/ InstallCheck(p)
    \/ InstallCopy(p)
    \/ CreateCheck(p)
    \/ DefinitionSelect(p)
    \/ DefinitionInsert(p)
    \/ InstanceSelect(p)
    \/ InstanceInsert(p)
    \/ PluginInsert(p)
    \/ ModuleInsert(p)
    \/ InstallVerify(p)
    \/ InstallCommit(p)

\* ------------------------------------------------------------- delete_plugin
\* An update_plugin that goes on to the install whatever the delete returned.
EndDeleteIgnoringFailure(p, l, r) ==
    IF l.verb = "update"
    THEN Goto(p, "iCheck", [l EXCEPT !.mgr = l.target])
    ELSE Return(p, l, r)

\* How delete_plugin's result r reaches the caller: update_plugin goes on to
\* install the target version when the delete succeeded.
EndDelete(p, l, r) ==
    IF l.verb = "update" /\ r.success
    THEN Goto(p, "iCheck", [l EXCEPT !.mgr = l.target])
    ELSE Return(p, l, r)

DeleteCheck(p) ==
    /\ pc[p] = "xCheck"
    /\ \E f \in FaultChoice :
        LET l == loc[p]
            chk == CheckExisting(p, l.user, f)
        IN  /\ Count(f)
            /\ IF chk.exists
               THEN Goto(p, "xDelMod", [l EXCEPT !.plugin_id = chk.plugin_id])
               ELSE EndDelete(p, l, Res(FALSE, "Plugin not found for user"))
            /\ UNCHANGED << store, pend, active, files, edits, removed >>

\* A DELETE FROM module that matches the first descriptor's row only.
DeleteModuleIdsFirstOnly(p, l) ==
    {r.id : r \in {x \in View(p).module :
        x.user_id = l.user /\ x.plugin_id = l.plugin_id /\ x.name = ModuleData[1].name}}

\* A DELETE FROM module that matches no row.
DeleteModuleIdsNone(p, l) == {}

\* The rows DELETE FROM module WHERE user_id = :user_id AND plugin_id =
\* :plugin_id matches.
DeleteModuleIds(p, l) ==
    {r.id : r \in {x \in View(p).module :
        x.user_id = l.user /\ x.plugin_id = l.plugin_id}}

\* _delete_database_records: DELETE FROM module WHERE user_id AND plugin_id.
\* An exception is caught there and returned as a failure; delete_plugin then
\* returns it without commit and without rollback.
DeleteModules(p) ==
    /\ pc[p] = "xDelMod"
    /\ \E f \in FaultChoice :
        LET l == loc[p]
            ids == DeleteModuleIds(p, l)
        IN  /\ Count(f)
            /\ IF f \/ ~CanWrite(p, "module", ids)
               THEN /\ EndDelete(p, l, Res(FALSE, DbError))
                    /\ UNCHANGED pend
               ELSE /\ pend' = [pend EXCEPT ![p] = Deleted(p, "module", ids)]
                    /\ Goto(p, "xDelPlug", [l EXCEPT !.deleted = Cardinality(ids)])
            /\ UNCHANGED << store, active, files, edits, removed >>

\* The success result of _perform_user_uninstallation.
UninstallationResult(l) ==
    [Res(TRUE, "-") EXCEPT !.plugin_id = l.plugin_id, !.deleted_modules = l.deleted]

\* _delete_database_records: DELETE FROM plugin WHERE user_id AND id.
\* delete_plugin goes on to its commit; the hook returns, leaving the commit to
\* its caller.
DeletePlugin(p) ==
    /\ pc[p] = "xDelPlug"
    /\ \E f \in FaultChoice :
        LET l == loc[p]
            ids == {r.id : r \in {x \in View(p).plugin :
                        x.user_id = l.user /\ x.id = l.plugin_id}}
        IN  /\ Count(f)
            /\ IF f \/ ~CanWrite(p, "plugin", ids)
               THEN /\ EndDelete(p, l, Res(FALSE, DbError))
                    /\ UNCHANGED pend
               ELSE /\ pend' = [pend EXCEPT ![p] = Deleted(p, "plugin", ids)]
                    /\ IF l.verb = "hook"
                       THEN Return(p, l, UninstallationResult(l))
                       ELSE Goto(p, "xCommit", l)
            /\ UNCHANGED << store, active, files, edits, removed >>

\* delete_plugin: await db.commit(); a failing commit raises into the except
\* branch, which rolls back.
DeleteCommit(p) ==
    /\ pc[p] = "xCommit"
    /\ \E f \in FaultChoice :
        LET l == loc[p]
        IN  /\ Count(f)
            /\ IF f
               THEN /\ pend' = [pend EXCEPT ![p] = NoPending]
                    /\ EndDelete(p, l, Res(FALSE, DbError))
                    /\ UNCHANGED store
               ELSE /\ store' = View(p)
                    /\ pend' = [pend EXCEPT ![p] = NoPending]
                    /\ EndDelete(p, l, [Res(TRUE, "-") EXCEPT
                                            !.deleted_modules = l.deleted])
            /\ removed' = IF f THEN removed ELSE removed \cup {l.user}
            /\ UNCHANGED << active, files, edits >>

DeleteStep(p) ==
    \/ DeleteCheck(p)
    \/ DeleteModules(p)
    \/ DeletePlugin(p)
    \/ DeleteCommit(p)

\* --------------------------------------------------------- get_plugin_status
StatusCheck(p) ==
    /\ pc[p] = "sCheck"
    /\ \E f \in FaultChoice :
        LET l == loc[p]
            chk == CheckExisting(p, l.user, f)
        IN  /\ Count(f)
            /\ Return(p, l, [Res(FALSE, "-") EXCEPT !.installed = chk.exists,
                                                      !.plugin_id = chk.plugin_id])
            /\ UNCHANGED << store, pend, active, files, edits, removed >>

\* ------------------------------------------------------------- update_plugin
\* `json.loads(col) if col else default` of _export_user_data.
ExportValue(text, default) ==
    IF Truthy(text) THEN Loads(text) ELSE [ok |-> TRUE, v |-> default]

\* plugin_config of _export_user_data: {} when there is no row or when one of
\* the three columns does not decode.
ExportPluginConfig(rows) ==
    IF rows = {}
    THEN NoPluginConfig
    ELSE LET r == CHOOSE x \in rows : TRUE
             c == ExportValue(r.config_fields, "{}")
             m == ExportValue(r.messages, "{}")
             d == ExportValue(r.dependencies, "[]")
         IN  IF c.ok /\ m.ok /\ d.ok
             THEN [present |-> TRUE, config_fields |-> c.v, messages |-> m.v,
                   dependencies |-> d.v]
             ELSE NoPluginConfig

ModuleDecodes(r) ==
    /\ ExportValue(r.props, "{}").ok
    /\ ExportValue(r.config_fields, "{}").ok
    /\ ExportValue(r.messages, "{}").ok
    /\ ExportValue(r.layout, "{}").ok

\* An export of module configurations that one undecodable row empties.
ExportModulesConfigAllOrNothing(rows) ==
    IF \A r \in rows : ModuleDecodes(r)
    THEN [n \in {r.name : r \in rows} |->
            LET r == CHOOSE x \in rows : x.name = n
            IN  [props |-> ExportValue(r.props, "{}").v,
                 config_fields |-> ExportValue(r.config_fields, "{}").v,
                 messages |-> ExportValue(r.messages, "{}").v,
                 layout |-> ExportValue(r.layout, "{}").v]]
    ELSE << >>

\* modules_config of _export_user_data: keyed by module name; a row with a
\* column that does not decode is left out.
ExportModulesConfig(rows) ==
    LET good == {r \in rows : ModuleDecodes(r)}
    IN  [n \in {r.name : r \in good} |->
            LET r == CHOOSE x \in good : x.name = n
            IN  [props |-> ExportValue(r.props, "{}").v,
                 config_fields |-> ExportValue(r.config_fields, "{}").v,
                 messages |-> ExportValue(r.messages, "{}").v,
                 layout |-> ExportValue(r.layout, "{}").v]]

\* An export whose exception ends update_plugin with a failure.
ExportPluginRaising(p) ==
    /\ pc[p] = "uExpPlug"
    /\ \E f \in FaultChoice :
        LET l == loc[p]
            rows == {r \in View(p).plugin : r.user_id = l.user /\ r.plugin_slug = Slug}
        IN  /\ Count(f)
            /\ IF f
               THEN Return(p, l, Res(FALSE, DbError))
               ELSE Goto(p, "uExpMod",
                         [l EXCEPT !.udata.plugin_config = ExportPluginConfig(rows)])
            /\ UNCHANGED << store, pend, active, files, edits, removed >>

\* _export_user_data: SELECT config_fields, messages, dependencies FROM plugin.
\* An exception fails the export and update_plugin goes on with user_data = {}.
ExportPlugin(p) ==
    /\ pc[p] = "uExpPlug"
    /\ \E f \in FaultChoice :
        LET l == loc[p]
            rows == {r \in View(p).plugin : r.user_id = l.user /\ r.plugin_slug = Slug}
        IN  /\ Count(f)
            /\ IF f
               THEN Goto(p, "xCheck", [l EXCEPT !.udata = NoData])
               ELSE Goto(p, "uExpMod",
                         [l EXCEPT !.udata.plugin_config = ExportPluginConfig(rows)])
            /\ UNCHANGED << store, pend, active, files, edits, removed >>

\* _export_user_data: SELECT name, props, config_fields, messages, layout FROM
\* module WHERE user_id AND plugin_id LIKE '{user_id}_{slug}'.
ExportModules(p) ==
    /\ pc[p] = "uExpMod"
    /\ \E f \in FaultChoice :
        LET l == loc[p]
            rows == {r \in View(p).module :
                        r.user_id = l.user /\ r.plugin_id = PluginId(l.user)}
        IN  /\ Count(f)
            /\ IF f
               THEN Goto(p, "xCheck", [l EXCEPT !.udata = NoData])
               ELSE Goto(p, "xCheck",
                         [l EXCEPT !.udata.ok = TRUE,
                                   !.udata.modules_config = ExportModulesConfig(rows)])
            /\ UNCHANGED << store, pend, active, files, edits, removed >>

\* The row _import_user_data's UPDATE plugin writes over r.
ImportedPlugin(r, c) ==
    [r EXCEPT !.config_fields = Dumps(c.config_fields),
              !.messages = Dumps(c.messages),
              !.dependencies = Dumps(c.dependencies)]

\* _import_user_data: UPDATE plugin SET config_fields, messages, dependencies
\* WHERE user_id AND id. An exception ends the import; it is logged only.
ImportPlugin(p) ==
    /\ pc[p] = "uImpPlug"
    /\ \E f \in FaultChoice :
        LET l == loc[p]
            old == {r \in View(p).plugin : r.user_id = l.user /\ r.id = PluginId(l.user)}
            ids == {r.id : r \in old}
            new == {ImportedPlugin(r, l.udata.plugin_config) : r \in old}
        IN  /\ Count(f)
            /\ IF f \/ ~CanWrite(p, "plugin", ids)
               THEN /\ Goto(p, "uCommit", l)
                    /\ UNCHANGED pend
               ELSE /\ pend' = [pend EXCEPT ![p] = Updated(p, "plugin", ids, new)]
                    /\ Goto(p, ImportLabel(l.todo), l)
            /\ UNCHANGED << store, active, files, edits, removed >>

\* An import that re-applies every exported module column but layout.
ImportedModuleNoLayout(r, c) ==
    [r EXCEPT !.props = Dumps(c.props),
              !.config_fields = Dumps(c.config_fields),
              !.messages = Dumps(c.messages)]

\* The row _import_user_data's UPDATE module writes over r.
ImportedModule(r, c) ==
    [r EXCEPT !.props = Dumps(c.props),
              !.config_fields = Dumps(c.config_fields),
              !.messages = Dumps(c.messages),
              !.layout = Dumps(c.layout)]

\* An import whose database error reaches update_plugin's except branch, which
\* rolls back and returns the failure.
ImportModuleRaising(p) ==
    /\ pc[p] = "uImpMod"
    /\ \E f \in FaultChoice, name \in loc[p].todo :
        LET l == loc[p]
            old == {r \in View(p).module :
                        r.user_id = l.user /\ r.id = ModuleId(l.user, name)}
            ids == {r.id : r \in old}
            new == {ImportedModule(r, l.udata.modules_config[name]) : r \in old}
            l2 == [l EXCEPT !.todo = @ \ {name}]
        IN  /\ Count(f)
            /\ IF f \/ ~CanWrite(p, "module", ids)
               THEN /\ pend' = [pend EXCEPT ![p] = NoPending]
                    /\ Return(p, l, Res(FALSE, DbError))
               ELSE /\ pend' = [pend EXCEPT ![p] = Updated(p, "module", ids, new)]
                    /\ Goto(p, ImportLabel(l2.todo), l2)
            /\ UNCHANGED << store, active, files, edits, removed >>

\* _import_user_data: UPDATE module SET props, config_fields, messages, layout
\* WHERE user_id AND id, once per exported module, in the order the export's
\* SELECT returned the rows (any order).
ImportModule(p) ==
    /\ pc[p] = "uImpMod"
    /\ \E f \in FaultChoice, name \in loc[p].todo :
        LET l == loc[p]
            old == {r \in View(p).module :
                        r.user_id = l.user /\ r.id = ModuleId(l.user, name)}
            ids == {r.id : r \in old}
            new == {ImportedModule(r, l.udata.modules_config[name]) : r \in old}
            l2 == [l EXCEPT !.todo = @ \ {name}]
        IN  /\ Count(f)
            /\ IF f \/ ~CanWrite(p, "module", ids)
               THEN /\ Goto(p, "uCommit", l)
                    /\ UNCHANGED pend
               ELSE /\ pend' = [pend EXCEPT ![p] = Updated(p, "module", ids, new)]
                    /\ Goto(p, ImportLabel(l2.todo), l2)
            /\ UNCHANGED << store, active, files, edits, removed >>

\* update_plugin: await db.commit() after the import; a failing commit raises
\* into update_plugin's except branch, which rolls back.
UpdateCommit(p) ==
    /\ pc[p] = "uCommit"
    /\ \E f \in FaultChoice :
        LET l == loc[p]
        IN  /\ Count(f)
            /\ pend' = [pend EXCEPT ![p] = NoPending]
            /\ IF f
               THEN /\ Return(p, l, Res(FALSE, DbError))
                    /\ UNCHANGED store
               ELSE /\ store' = View(p)
                    /\ Return(p, l, l.result)
            /\ UNCHANGED << active, files, edits, removed >>

UpdateStep(p) ==
    \/ ExportPlugin(p)
    \/ ExportModules(p)
    \/ ImportPlugin(p)
    \/ ImportModule(p)
    \/ UpdateCommit(p)

\* ------------------------------------------------------------- environment
Idle == \A p \in Procs : pc[p] = "idle"

Unlocked(t, id) == \A q \in Procs : id \notin pend[q].del[t]

\* Texts the host application may store in a configuration column.
EditTexts == {Json("k1", "canon"), Json("k1", "compact"), Bad}

\* The host application (or the user through it) rewrites one configuration
\* column of a committed plugin or module row, between two calls of the verbs.
HostEditRow(t, fields) ==
    /\ Idle
    /\ edits < MaxEdits
    /\ \E r \in store[t], fld \in fields, text \in EditTexts :
        /\ Unlocked(t, r.id)
        /\ r[fld] # text
        /\ store' = [store EXCEPT ![t] = (@ \ {r}) \cup {[r EXCEPT ![fld] = text]}]
    /\ edits' = edits + 1
    /\ UNCHANGED << pend, active, files, faults, pc, loc, ret, pre, removed >>

HostEditPlugin == HostEditRow("plugin", {"config_fields", "messages", "dependencies"})

HostEditModule == HostEditRow("module", {"props", "config_fields", "messages", "layout"})

\* The user changes a setting: the value of one committed settings instance.
HostEditInstance ==
    /\ Idle
    /\ edits < MaxEdits
    /\ \E r \in store.inst :
        /\ Unlocked("inst", r.id)
        /\ r.value # "edited"
        /\ store' = [store EXCEPT !.inst = (@ \ {r}) \cup {[r EXCEPT !.value = "edited"]}]
    /\ edits' = edits + 1
    /\ UNCHANGED << pend, active, files, faults, pc, loc, ret, pre, removed >>

\* The host instantiates the manager anew: __init__ starts with no active user.
Construct(m) ==
    /\ Idle
    /\ active[m] # {}
    /\ active' = [active EXCEPT ![m] = {}]
    /\ UNCHANGED << store, pend, files, faults, edits, pc, loc, ret, pre, removed >>

\* The caller closes its session: what is still uncommitted is discarded.
CloseSession(p) ==
    /\ pc[p] = "idle"
    /\ pend[p] # NoPending
    /\ pend' = [pend EXCEPT ![p] = NoPending]
    /\ UNCHANGED << store, active, files, faults, edits, pc, loc, ret, pre, removed >>

\* ------------------------------------------------------------ specifications
\* Spec: one caller, one shared session; the verbs are called one after the
\* other, each running to its return before the next is called. The stored
\* configuration is what the verbs themselves wrote.
Caller == "p1"

Next ==
    \/ \E u \in Users, m \in Managers : CallInstall(Caller, u, m, Snapshot(Caller))
    \/ \E u \in Users : CallDelete(Caller, u)
    \/ \E u \in Users : CallStatus(Caller, u)
    \/ \E u \in Users, target \in Managers : CallUpdate(Caller, u, target)
    \/ InstallStep(Caller)
    \/ DeleteStep(Caller)
    \/ StatusCheck(Caller)
    \/ UpdateStep(Caller)
    \/ Ack(Caller)
    \/ \E m \in Managers : Construct(m)
    \/ CloseSession(Caller)

Spec == Init /\ [][Next]_vars

\* SpecEdit: as Spec for a single user, with the host application editing the
\* stored configuration between the calls.
EditUser == "u1"

NextEdit ==
    \/ \E m \in Managers : CallInstall(Caller, EditUser, m, Snapshot(Caller))
    \/ CallDelete(Caller, EditUser)
    \/ \E target \in Managers : CallUpdate(Caller, EditUser, target)
    \/ InstallStep(Caller)
    \/ DeleteStep(Caller)
    \/ UpdateStep(Caller)
    \/ Ack(Caller)
    \/ HostEditPlugin
    \/ HostEditModule
    \/ HostEditInstance
    \/ \E m \in Managers : Construct(m)
    \/ CloseSession(Caller)

SpecEdit == Init /\ [][NextEdit]_vars

\* SpecHook: one caller, one session; beside install_plugin and delete_plugin
\* the host calls the hook _perform_user_uninstallation itself and closes or
\* reuses the session afterwards.
NextHook ==
    \/ \E u \in Users, m \in Managers : CallInstall(Caller, u, m, Snapshot(Caller))
    \/ \E u \in Users : CallDelete(Caller, u)
    \/ \E u \in Users : CallUninstallation(Caller, u)
    \/ InstallStep(Caller)
    \/ DeleteStep(Caller)
    \/ Ack(Caller)
    \/ CloseSession(Caller)

SpecHook == Init /\ [][NextHook]_vars

\* ------------------------------------------------- _validate_installation_impl
\* SpecValidate: _validate_installation_impl applied to every plugin directory
\* of the bounded input space. The variable files is the set of paths that
\* exist under plugin_dir; the text of package.json and the size of the bundle
\* are fixed when the call starts.
RequiredFiles == << "package.json", "dist/remoteEntry.js" >>
RequiredFields == << "name", "version" >>

\* st_size of the bundle ranges over 0..MaxSize.
MaxSize == 2

\* What json.load may give for package.json: an object with some keys, an
\* array with some string elements, a string with some substrings, a number.
PackageTypes == {"object", "array", "string", "number"}
PackageValues ==
    {[type |-> t, has |-> h] : t \in PackageTypes \ {"number"},
                               h \in SUBSET {"name", "version"}}
        \cup {[type |-> "number", has |-> {}]}

\* The texts package.json may hold: not JSON, or the JSON text of a value.
PackageTexts == {Bad} \cup {Json(v, "canon") : v \in PackageValues}

\* `field in package_data` is defined for dict, list and str and raises
\* TypeError for any other value.
SupportsIn(data) == data.type \in {"object", "array", "string"}

Valid == [valid |-> TRUE, error |-> << >>]
Invalid(error) == [valid |-> FALSE, error |-> error]

\* A scan of required_files that stops at the first missing file.
MissingFilesFirstOnly(dir) ==
    LET all == SelectSeq(RequiredFiles, LAMBDA f : f \notin dir)
    IN  IF all = << >> THEN << >> ELSE << Head(all) >>

\* missing_files: the required files that do not exist, in the order of
\* required_files.
MissingFiles(dir) == SelectSeq(RequiredFiles, LAMBDA f : f \notin dir)

\* The required_fields that are not in package_data, in their order; the loop
\* over required_fields returns at the first.
MissingFields(data) == SelectSeq(RequiredFields, LAMBDA f : f \notin data.has)

ValidateInstallationImpl(dir, package_json, bundle_size) ==
    LET missing == MissingFiles(dir)
        parsed == Loads(package_json)
    IN  IF missing # << >>
        THEN Invalid(<< "Missing required files", missing >>)
        ELSE IF ~parsed.ok
        THEN Invalid(<< "Invalid or missing package.json" >>)
        ELSE IF ~SupportsIn(parsed.v)
        THEN Invalid(<< "TypeError" >>)
        ELSE IF MissingFields(parsed.v) # << >>
        THEN Invalid(<< "package.json missing required field",
                        Head(MissingFields(parsed.v)) >>)
        ELSE IF bundle_size = 0
        THEN Invalid(<< "Bundle file (remoteEntry.js) is empty" >>)
        ELSE Valid

\* The base class calls _validate_installation_impl(user_id, plugin_dir); what
\* the directory holds is read during the call.
CallValidate(p, u, text, size) ==
    /\ pc[p] = "idle"
    /\ text = Bad \/ "package.json" \in files
    /\ size = 0 \/ "dist/remoteEntry.js" \in files
    /\ pc' = [pc EXCEPT ![p] = "vCheck"]
    /\ loc' = [loc EXCEPT ![p] = [verb |-> "validate", user |-> u,
                                  package_json |-> text, bundle_size |-> size]]
    /\ pre' = [pre EXCEPT ![p] = Snapshot(p)]
    /\ UNCHANGED << store, pend, active, files, faults, edits, ret, removed >>

Validate(p) ==
    /\ pc[p] = "vCheck"
    /\ Return(p, loc[p], ValidateInstallationImpl(files, loc[p].package_json,
                                                  loc[p].bundle_size))
    /\ UNCHANGED << store, pend, active, files, faults, edits, removed >>

InitValidate ==
    /\ store = EmptyTables
    /\ pend = [p \in Procs |-> NoPending]
    /\ active = [m \in Managers |-> {}]
    /\ files \in SUBSET (LoopFiles \cup {OwnFile})
    /\ faults = 0
    /\ edits = 0
    /\ pc = [p \in Procs |-> "idle"]
    /\ loc = [p \in Procs |-> LocInit]
    /\ ret = [p \in Procs |-> NoRes]
    /\ pre = [p \in Procs |-> NoPre]
    /\ removed = {}

NextValidate ==
    \/ \E u \in Users, text \in PackageTexts, size \in 0..MaxSize :
            CallValidate(Caller, u, text, size)
    \/ Validate(Caller)
    \/ Ack(Caller)

SpecValidate == InitValidate /\ [][NextValidate]_vars

\* SpecConc: two coroutines install concurrently, each through a manager
\* instance and a session of its own; their statements interleave at every
\* await.
ManagerOf(p) == IF p = "p1" THEN "m1" ELSE "m2"

NextConc ==
    \E p \in Procs :
        \/ \E u \in Users : CallInstall(p, u, ManagerOf(p), NoPre)
        \/ InstallStep(p)
        \/ Ack(p)

SpecConc == Init /\ [][NextConc]_vars

\* ------------------------------------------------------------------ claims
Done(p) == pc[p] = "done"

PluginRowsOf(tables, u) ==
    {r \in tables.plugin : r.user_id = u /\ r.plugin_slug = Slug}

ModuleRowsOf(tables, u) == {r \in tables.module : r.user_id = u}

InstanceRowsOf(tables, u) == {r \in tables.inst : r.user_id = u}

\* What the caller's session read when the verb was called.
PreView(p) ==
    [t \in Tables |->
        {r \in pre[p].store[t] : r.id \notin pre[p].pend.del[t]} \cup pre[p].pend.ins[t]]

AlreadyErrors ==
    {"Plugin already installed for user", "Plugin already exists for user"}

\* Writes of session p that were not pending when the verb was called.
OwnWrites(p) ==
    [ins |-> [t \in Tables |-> pend[p].ins[t] \ pre[p].pend.ins[t]],
     del |-> [t \in Tables |-> pend[p].del[t] \ pre[p].pend.del[t]]]

\* C1: install_plugin for a user who already has a PluginRow returns the
\* 'already installed' failure and is a no-op: one PluginRow for the user, no
\* row added or changed, committed or pending, and no file copied.
C1_ReinstallIsNoOp ==
    \A p \in Procs :
        (/\ Done(p)
         /\ loc[p].verb = "install"
         /\ PluginRowsOf(PreView(p), loc[p].user) # {})
        => /\ ~ret[p].success
           /\ ret[p].error \in AlreadyErrors
           /\ Cardinality(PluginRowsOf(View(p), loc[p].user)) = 1
           /\ store = pre[p].store
           /\ OwnWrites(p) = NoPending
           /\ files = pre[p].files
           /\ loc[p].copied = {}

\* C1 holds of every call in which no statement of the call raises.
C1_ReinstallIsNoOpWithoutFault ==
    \A p \in Procs :
        (/\ Done(p)
         /\ loc[p].verb = "install"
         /\ faults = pre[p].faults
         /\ PluginRowsOf(PreView(p), loc[p].user) # {})
        => /\ ~ret[p].success
           /\ ret[p].error = "Plugin already installed for user"
           /\ Cardinality(PluginRowsOf(View(p), loc[p].user)) = 1
           /\ store = pre[p].store
           /\ pend[p] = pre[p].pend
           /\ files = pre[p].files
           /\ loc[p].copied = {}

\* C2: install_plugin commits only when the copy, every write and the
\* verification succeeded; an install that returns failure has rolled back:
\* none of its writes is pending or committed.
C2_FailedInstallRolledBack ==
    \A p \in Procs :
        (Done(p) /\ loc[p].verb = "install")
        => /\ store # pre[p].store => ret[p].success
           /\ ~ret[p].success => OwnWrites(p) = NoPending

\* C3: update_plugin is all-or-nothing: on failure the user's PluginRow and
\* ModuleRows are exactly as before the call; on success the delete, the
\* insert and the re-applied configuration are all committed.
C3_UpdateAllOrNothing ==
    \A p \in Procs :
        (Done(p) /\ loc[p].verb = "update")
        => /\ ~ret[p].success =>
                /\ PluginRowsOf(store, loc[p].user) = PluginRowsOf(pre[p].store, loc[p].user)
                /\ ModuleRowsOf(store, loc[p].user) = ModuleRowsOf(pre[p].store, loc[p].user)
           /\ ret[p].success =>
                /\ pend[p] = NoPending
                /\ PluginRowsOf(store, loc[p].user) # {}

\* C7: a database error during delete_plugin is caught, rolled back so that
\* no partial deletion stays pending, and returned as a failure result.
C7_FailedDeleteRolledBack ==
    \A p \in Procs :
        (Done(p) /\ loc[p].verb = "delete" /\ ~ret[p].success)
        => /\ ret[p].error # "-"
           /\ OwnWrites(p) = NoPending
           /\ store = pre[p].store

\* C8: after a delete_plugin(user) that returned success, get_plugin_status
\* returns installed: false until a later install for that user succeeds.
C8_StatusAfterDelete ==
    \A p \in Procs :
        (Done(p) /\ loc[p].verb = "status" /\ loc[p].user \in removed)
        => ~ret[p].installed

\* The configuration columns of a row, as _export_user_data reads them: a NULL
\* column reads as its default, an undecodable text reads as nothing.
PluginFields == {"config_fields", "messages", "dependencies"}
ModuleFields == {"props", "config_fields", "messages", "layout"}
FieldDefault(fld) == IF fld = "dependencies" THEN "[]" ELSE "{}"
Decoded(r, fld) == ExportValue(r[fld], FieldDefault(fld))
ConfigRows(tables, u) ==
    [plugin |-> PluginRowsOf(tables, u), module |-> ModuleRowsOf(tables, u)]
ConfigFields == [plugin |-> PluginFields, module |-> ModuleFields]
ConfigTables == {"plugin", "module"}

\* A successful update that ran with no failing statement.
CleanUpdate(p) ==
    /\ Done(p)
    /\ loc[p].verb = "update"
    /\ ret[p].success
    /\ faults = pre[p].faults

C5_AtMostOnePluginRow ==
    /\ \A u \in Users :
        /\ Cardinality(PluginRowsOf(store, u)) <= 1
        /\ \A p \in Procs : Cardinality(PluginRowsOf(View(p), u)) <= 1
    /\ \A p \in Procs :
        (Done(p) /\ ret[p].error = DbError)
        => ~ret[p].success /\ pend[p] = NoPending

\* Two installers of one user both passed the existence check; the one whose
\* INSERT INTO plugin came second has failed on the key, with no injected
\* fault, after it had created the user's three settings instances.
C5_SecondInsertFailed ==
    \E p \in Procs, q \in Procs :
        /\ p # q
        /\ loc[p].user = loc[q].user
        /\ Done(p)
        /\ ret[p].error = DbError
        /\ faults = 0
        /\ Len(loc[p].created) = Len(SettingsInstances)
        /\ loc[p].plugin_id = NoId
        /\ PluginRowsOf(View(q), loc[q].user) # {}
        /\ pend[p] = NoPending

\* C6: the store never holds two SettingsDefinition rows with one id, and
\* holds exactly one row per definition id once any install has committed.
C6_DefinitionsOnce ==
    /\ \A d \in DefIds : Cardinality({r \in store.defs : r.id = d}) <= 1
    /\ \A p \in Procs, d \in DefIds :
        Cardinality({r \in View(p).defs : r.id = d}) <= 1
    /\ store.plugin # {} =>
        \A d \in DefIds : Cardinality({r \in store.defs : r.id = d}) = 1

\* Two first installs by different users interleaved: one failed on the
\* definition insert the other held, the other committed the three rows.
C6_InterleavedFirstInstalls ==
    \E p \in Procs, q \in Procs :
        /\ loc[p].user # loc[q].user
        /\ Done(p) /\ ret[p].error = DbError /\ loc[p].created = << >>
        /\ Done(q) /\ ret[q].success
        /\ faults = 0
        /\ Cardinality(store.plugin) = 1
        /\ Cardinality(store.defs) = Cardinality(DefIds)

\* The ModuleRows of user u for descriptor name, in a set of tables.
ModuleRowsFor(tables, u, name) ==
    {r \in tables.module : r.user_id = u /\ r.name = name}

\* C9: a successful install leaves exactly one ModuleRow per module
\* descriptor, with id {user}_{name} and plugin_id the id of the user's
\* PluginRow, all created by this install; no user ever has two ModuleRows for
\* one descriptor.
C9_OneModuleRowPerDescriptor ==
    /\ \A u \in Users, name \in ModuleNames :
        /\ Cardinality(ModuleRowsFor(store, u, name)) <= 1
        /\ \A p \in Procs : Cardinality(ModuleRowsFor(View(p), u, name)) <= 1
    /\ \A p \in Procs :
        (Done(p) /\ loc[p].verb = "install" /\ ret[p].success)
        => /\ Cardinality(ModuleRowsOf(store, loc[p].user)) = Len(ModuleData)
           /\ Len(ret[p].modules_created) = Len(ModuleData)
           /\ ModuleRowsOf(store, loc[p].user) \cap pre[p].store.module = {}
           /\ \A name \in ModuleNames :
                \E r \in ModuleRowsFor(store, loc[p].user, name) :
                    /\ r.id = ModuleId(loc[p].user, name)
                    /\ r.plugin_id = PluginId(loc[p].user)
                    /\ \E pr \in PluginRowsOf(store, loc[p].user) : pr.id = r.plugin_id

\* An install has succeeded for the second user: each user has a ModuleRow
\* of every descriptor.
C9_BothUsersInstalled ==
    \E p \in Procs :
        /\ Done(p) /\ loc[p].verb = "install" /\ ret[p].success
        /\ \A u \in Users : Cardinality(ModuleRowsOf(store, u)) = Len(ModuleData)
        /\ \A u \in Users \ {loc[p].user} :
            ModuleRowsOf(pre[p].store, u) = ModuleRowsOf(store, u)

\* C10: on a store with no rows, a successful install_plugin(u) leaves exactly
\* one PluginRow, with id {u}_BrainDriveSettings, exactly 3 SettingsDefinitions
\* and exactly 3 SettingsInstances of u, one per definition, each of scope
\* 'user'.
C10_FreshInstall ==
    \A p \in Procs :
        (/\ Done(p) /\ loc[p].verb = "install" /\ ret[p].success
         /\ pre[p].store = EmptyTables
         /\ pre[p].pend = NoPending)
        => /\ Cardinality(store.plugin) = 1
           /\ \A r \in store.plugin : r.id = PluginId(loc[p].user) /\ r.user_id = loc[p].user
           /\ Cardinality(store.defs) = 3
           /\ {r.id : r \in store.defs} = DefIds
           /\ Cardinality(store.inst) = 3
           /\ \A r \in store.inst : r.user_id = loc[p].user /\ r.scope = "user"
           /\ \A d \in DefIds :
                Cardinality({r \in store.inst : r.definition_id = d}) = 1

\* An install on the empty store has returned success.
C10_FreshInstallDone ==
    \E p \in Procs :
        /\ Done(p) /\ loc[p].verb = "install" /\ ret[p].success
        /\ pre[p].store = EmptyTables
        /\ pre[p].pend = NoPending
        /\ store.inst # {}

\* A delete_plugin call that returned success.
DeleteDone(p) == Done(p) /\ loc[p].verb = "delete" /\ ret[p].success

\* C11: a successful delete_plugin(u) leaves no PluginRow and no ModuleRow of
\* u, and leaves every SettingsDefinition, every SettingsInstance (u's own
\* included) and the files on disk as the caller's session had them.
C11_DeleteRemovesRows ==
    \A p \in Procs :
        DeleteDone(p)
        => /\ PluginRowsOf(store, loc[p].user) = {}
           /\ ModuleRowsOf(store, loc[p].user) = {}
           /\ pend[p] = NoPending
           /\ store.defs = PreView(p).defs
           /\ store.inst = PreView(p).inst
           /\ files = pre[p].files

\* A successful delete for a user who had the plugin row, three module rows
\* and three settings instances: the instances are still there.
C11_DeletedInstalledUser ==
    \E p \in Procs :
        /\ DeleteDone(p)
        /\ PluginRowsOf(pre[p].store, loc[p].user) # {}
        /\ Cardinality(ModuleRowsOf(pre[p].store, loc[p].user)) = Len(ModuleData)
        /\ Cardinality(InstanceRowsOf(store, loc[p].user)) = Len(SettingsInstances)
        /\ files # {}

\* The settings instances of one (definition_id, user_id, scope) in a set of
\* tables.
InstancesFor(tables, d, u, sc) ==
    {r \in tables.inst : r.definition_id = d /\ r.user_id = u /\ r.scope = sc}

Scopes == {SettingsInstances[i].scope : i \in DOMAIN SettingsInstances}

C12_BothInsertedInstance ==
    \E p \in Procs, q \in Procs, d \in DefIds, u \in Users, sc \in Scopes :
        /\ p # q
        /\ InstancesFor(pend[p].ins, d, u, sc) # {}
        /\ InstancesFor(pend[q].ins, d, u, sc) # {}

InstallDone(p) == Done(p) /\ loc[p].verb = "install" /\ ret[p].success

\* C13: a successful install returns a result that carries the plugin id, the
\* list of modules created and the list of settings instances created for the
\* user.
C13_InstallResultCarriesAll ==
    \A p \in Procs :
        InstallDone(p)
        => /\ ret[p].plugin_id = PluginId(loc[p].user)
           /\ ret[p].modules_created = [i \in DOMAIN ModuleData |-> ModuleData[i].name]
           /\ ret[p].has_settings
           /\ ret[p].settings_created = loc[p].created

\* C13 without the settings: the plugin id and the modules created are there.
C13_InstallResultCarriesPluginAndModules ==
    \A p \in Procs :
        InstallDone(p)
        => /\ ret[p].plugin_id = PluginId(loc[p].user)
           /\ ret[p].modules_created = [i \in DOMAIN ModuleData |-> ModuleData[i].name]
           /\ ret[p].files_copied = loc[p].copied

\* C14: uninstall deletes the user's ModuleRows before the PluginRow and
\* commits only after both: when the PluginRow is about to be deleted the
\* ModuleRows are gone from the transaction's view, at the commit both are
\* gone, no committed state has ModuleRows of a user without the PluginRow,
\* and an uninstall that returns failure has committed nothing.
C14_DeleteOrderAndCommit ==
    /\ \A u \in Users :
        ModuleRowsOf(store, u) # {} => PluginRowsOf(store, u) # {}
    /\ \A p \in Procs :
        /\ pc[p] = "xDelPlug" =>
            /\ ModuleRowsOf(View(p), loc[p].user) = {}
            /\ PluginRowsOf(View(p), loc[p].user) # {}
            /\ store = pre[p].store
        /\ pc[p] = "xCommit" =>
            /\ ModuleRowsOf(View(p), loc[p].user) = {}
            /\ PluginRowsOf(View(p), loc[p].user) = {}
            /\ store = pre[p].store
        /\ (Done(p) /\ loc[p].verb = "delete" /\ ~ret[p].success) =>
            store = pre[p].store

\* An uninstall has returned a failure after its DELETE FROM module had
\* executed: the three module deletions are uncommitted.
C14_DeleteFailedHalfway ==
    \E p \in Procs :
        /\ Done(p) /\ loc[p].verb = "delete" /\ ~ret[p].success
        /\ ret[p].error = DbError
        /\ Cardinality(OwnWrites(p).del.module) = Len(ModuleData)
        /\ Cardinality(ModuleRowsOf(store, loc[p].user)) = Len(ModuleData)

\* C15: delete_plugin, and the hook _perform_user_uninstallation, for a user
\* of whom the session reads no PluginRow return the failure 'Plugin not found
\* for user', delete nothing and commit nothing.
C15_DeleteOfAbsentUser ==
    \A p \in Procs :
        (/\ Done(p)
         /\ loc[p].verb \in {"delete", "hook"}
         /\ PluginRowsOf(PreView(p), loc[p].user) = {})
        => /\ ~ret[p].success
           /\ ret[p].error = "Plugin not found for user"
           /\ store = pre[p].store
           /\ pend[p] = pre[p].pend
           /\ files = pre[p].files

\* The hook has returned 'Plugin not found for user' for a user while the
\* other user is installed.
C15_HookOfAbsentUser ==
    \E p \in Procs :
        /\ Done(p) /\ loc[p].verb = "hook"
        /\ ret[p].error = "Plugin not found for user"
        /\ store.plugin # {}
        /\ PluginRowsOf(PreView(p), loc[p].user) = {}

\* A get_plugin_status call that has returned.
StatusDone(p) == Done(p) /\ loc[p].verb = "status"

\* The call changed no row, no file, no pending write and no manager state.
NothingChanged(p) ==
    /\ store = pre[p].store
    /\ pend[p] = pre[p].pend
    /\ files = pre[p].files
    /\ active = pre[p].active

\* C16: get_plugin_status returns installed: true, with the plugin id, exactly
\* when a PluginRow exists for (user_id, slug), installed: false otherwise, and
\* changes no row, no file, no pending transaction state and no manager state.
C16_StatusIsPureRead ==
    \A p \in Procs :
        StatusDone(p)
        => /\ ret[p].installed <=> PluginRowsOf(PreView(p), loc[p].user) # {}
           /\ ret[p].installed => ret[p].plugin_id = PluginId(loc[p].user)
           /\ NothingChanged(p)

\* C16 when the existence query does not raise, and its no-change part always.
C16_StatusIsPureReadWithoutFault ==
    \A p \in Procs :
        StatusDone(p)
        => /\ faults = pre[p].faults =>
                (ret[p].installed <=> PluginRowsOf(PreView(p), loc[p].user) # {})
           /\ ret[p].installed => ret[p].plugin_id = PluginId(loc[p].user)
           /\ NothingChanged(p)

\* The positions of a call inside delete_plugin.
UninstallLabels == {"xCheck", "xDelMod", "xDelPlug", "xCommit"}

\* C17: when the uninstall phase of update_plugin fails, update_plugin returns
\* that failure and attempts neither the install of the target version nor the
\* import: the only way from the uninstall phase into the install is a commit
\* of the deletion that did not raise, and every other way out is the return of
\* a failure that leaves files and manager state alone.
C17_UninstallFailureEndsUpdate ==
    [][\A p \in Procs :
        (loc[p].verb = "update" /\ pc[p] \in UninstallLabels
                                /\ pc'[p] \notin UninstallLabels)
        => \/ /\ pc[p] = "xCommit"
              /\ faults' = faults
              /\ store' = View(p)
              /\ pc'[p] = "iCheck"
           \/ /\ pc'[p] = "done"
              /\ ~ret'[p].success
              /\ ret'[p].error \in {DbError, "Plugin not found for user"}
              /\ files' = files
              /\ active' = active
              /\ \A t \in Tables : pend'[p].ins[t] \subseteq pend[p].ins[t]]_vars

\* An update of an installed user has returned the database error of its
\* uninstall phase, the install never entered.
C17_UpdateFailedAtUninstall ==
    \E p \in Procs :
        /\ Done(p)
        /\ loc[p].verb = "update"
        /\ PluginRowsOf(PreView(p), loc[p].user) # {}
        /\ loc[p].plugin_id = PluginId(loc[p].user)
        /\ loc[p].mgr = "-"
        /\ ret[p].error = DbError

\* The positions of a call inside _import_user_data.
ImportLabels == {"uImpPlug", "uImpMod"}

\* The PluginRow and every descriptor's ModuleRow of user u are in tables.
InstalledRows(tables, u) ==
    /\ PluginRowsOf(tables, u) # {}
    /\ \A i \in DOMAIN ModuleData : ModuleRowsFor(tables, u, ModuleData[i].name) # {}

\* C18: the import step of update_plugin is best-effort. The import runs only
\* after a successful, committed install; a database error in one of its
\* statements ends the import without changing the result or any row; the
\* commit that follows, when it does not raise, returns the successful install
\* result; and the newly installed PluginRow and ModuleRows stay committed
\* throughout.
C18_ImportIsBestEffort ==
    [][\A p \in Procs :
        /\ pc[p] \in ImportLabels \cup {"uCommit"}
           => /\ loc[p].result.success
              /\ loc[p].result = InstallResult(loc[p])
              /\ InstalledRows(store, loc[p].user)
              /\ InstalledRows(store', loc[p].user)
        /\ (pc[p] \in ImportLabels /\ faults' # faults)
           => /\ pc'[p] = "uCommit"
              /\ loc'[p].result = loc[p].result
              /\ store' = store
              /\ pend' = pend
        /\ (pc[p] = "uCommit" /\ faults' = faults /\ pc'[p] # pc[p])
           => /\ pc'[p] = "done"
              /\ ret'[p] = loc[p].result
              /\ store' = View(p)]_vars

\* An update has returned the successful install result although a statement
\* of its import raised, and the new rows are committed.
C18_UpdateSucceededImportFailed ==
    \E p \in Procs :
        /\ Done(p)
        /\ loc[p].verb = "update"
        /\ loc[p].udata.ok
        /\ loc[p].todo # {}
        /\ faults > pre[p].faults
        /\ ret[p].success
        /\ ret[p] = InstallResult(loc[p])
        /\ InstalledRows(store, loc[p].user)

\* The positions of a call inside _export_user_data.
ExportLabels == {"uExpPlug", "uExpMod"}

\* The update of p is past an export that failed.
ExportFailed(p) ==
    /\ loc[p].verb = "update"
    /\ pc[p] \notin ExportLabels
    /\ ~loc[p].udata.ok

\* The user's PluginRow and ModuleRows in tables are those of a first install,
\* column by column.
FirstInstallValues(tables, u) ==
    /\ Cardinality(PluginRowsOf(tables, u)) = 1
    /\ \A r \in PluginRowsOf(tables, u) :
        /\ r.id = PluginId(u)
        /\ \A fld \in PluginFields : r[fld] = Null
    /\ Cardinality(ModuleRowsOf(tables, u)) = Len(ModuleData)
    /\ \A i \in DOMAIN ModuleData :
        \E r \in ModuleRowsOf(tables, u) :
            /\ r.id = ModuleId(u, ModuleData[i].name)
            /\ r.plugin_id = PluginId(u)
            /\ \A fld \in ModuleFields : r[fld] = Dumps(ModuleData[i][fld])

\* C19: when the export phase of update_plugin fails for an installed user,
\* update_plugin goes on with an empty configuration: the failing export step
\* leads into the uninstall with no exported data and no row changed; no
\* import position is entered afterwards; with no other failure the update
\* succeeds; and after a successful one the user's rows hold the values of a
\* first install.
C19_ExportFailureContinues ==
    [][\A p \in Procs :
        /\ (pc[p] \in ExportLabels /\ faults' # faults)
           => /\ pc'[p] = "xCheck"
              /\ loc'[p].udata = NoData
              /\ store' = store
              /\ pend' = pend
        /\ ExportFailed(p)
           => /\ pc'[p] \notin ImportLabels \cup {"uCommit"}
              /\ loc'[p].udata = NoData \/ pc'[p] = "idle"
        /\ (ExportFailed(p) /\ Done(p) /\ ret[p].success)
           => /\ FirstInstallValues(store, loc[p].user)
              /\ ret[p] = InstallResult(loc[p])
        /\ (/\ ExportFailed(p) /\ Done(p)
            /\ faults = pre[p].faults + 1
            /\ pre[p].pend = NoPending
            /\ PluginRowsOf(pre[p].store, loc[p].user) # {}
            /\ loc[p].user \notin pre[p].active[loc[p].target])
           => ret[p].success]_vars

\* An update of a user whose stored configuration differed from a first
\* install's has succeeded after its export failed.
C19_UpdatedWithoutExport ==
    \E p \in Procs :
        /\ Done(p)
        /\ ExportFailed(p)
        /\ ret[p].success
        /\ PluginRowsOf(pre[p].store, loc[p].user) # {}
        /\ ~FirstInstallValues(pre[p].store, loc[p].user)
        /\ FirstInstallValues(store, loc[p].user)

\* A call of _validate_installation_impl that has returned.
ValidateDone(p) == Done(p) /\ loc[p].verb = "validate"

\* The conditions of a valid installation, each meaningful when those before
\* it hold.
FilesExist == \A i \in DOMAIN RequiredFiles : RequiredFiles[i] \in files
PackageParses(p) == loc[p].package_json.k = "json"
PackageHasFields(p) ==
    /\ loc[p].package_json.v.type # "number"
    /\ \A i \in DOMAIN RequiredFields : RequiredFields[i] \in loc[p].package_json.v.has
BundleNonEmpty(p) == loc[p].bundle_size > 0

\* C20: _validate_installation_impl returns valid: true exactly when
\* package.json and dist/remoteEntry.js both exist, package.json parses and
\* contains 'name' and 'version', and the bundle is non-empty; otherwise it
\* returns valid: false with the first failing condition in that order, and the
\* error of a missing required file names every missing path and no other.
C20_ValidationVerdict ==
    \A p \in Procs :
        ValidateDone(p)
        => LET r == ret[p]
               kind == r.error[1]
           IN  /\ r.valid <=> (/\ FilesExist
                               /\ PackageParses(p)
                               /\ PackageHasFields(p)
                               /\ BundleNonEmpty(p))
               /\ r.valid => r.error = << >>
               /\ ~r.valid =>
                    IF ~FilesExist
                    THEN /\ kind = "Missing required files"
                         /\ {r.error[2][i] : i \in DOMAIN r.error[2]}
                                = {RequiredFiles[i] : i \in DOMAIN RequiredFiles} \ files
                    ELSE IF ~PackageParses(p)
                    THEN kind = "Invalid or missing package.json"
                    ELSE IF ~PackageHasFields(p)
                    THEN \/ /\ kind = "package.json missing required field"
                            /\ r.error[2] \notin loc[p].package_json.v.has
                            /\ r.error[2] = "version"
                                    => "name" \in loc[p].package_json.v.has
                         \/ /\ kind = "TypeError"
                            /\ loc[p].package_json.v.type = "number"
                    ELSE kind = "Bundle file (remoteEntry.js) is empty"

\* A directory with neither required file has been validated: the error names
\* the bundle's path beside package.json's.
C20_BothFilesMissing ==
    \E p \in Procs :
        /\ ValidateDone(p)
        /\ "dist/remoteEntry.js" \notin files
        /\ "package.json" \notin files
        /\ ~ret[p].valid
        /\ \E i \in DOMAIN ret[p].error[2] : ret[p].error[2][i] = "dist/remoteEntry.js"

\* A directory that passes every check has been validated.
C20_ValidDirectory ==
    \E p \in Procs :
        /\ ValidateDone(p)
        /\ ret[p].valid
        /\ FilesExist
        /\ BundleNonEmpty(p)

\* C21: a failure to copy any single file during _copy_plugin_files_impl, the
\* manager's own lifecycle_manager.py included, is skipped: the copy returns
\* success (the install goes on to the database records) and copied_files
\* lists exactly the files that were copied.
C21_CopySkipsEveryFailure ==
    [][\A p \in Procs :
        (pc[p] = "iCopy" /\ pc'[p] # "iCopy")
        => /\ pc'[p] = "cCheck"
           /\ files' = files \cup loc'[p].copied
           /\ Cardinality(loc'[p].copied) =
                Cardinality(LoopFiles \cup {OwnFile}) - (faults' - faults)]_vars

\* C21 for the files copied inside the loop: their failures are skipped and
\* copied_files is exact; only a failing copy of the manager's own file fails
\* the copy, with the error of the exception.
C21_CopySkipsLoopFailures ==
    [][\A p \in Procs :
        (pc[p] = "iCopy" /\ pc'[p] # "iCopy")
        => \/ /\ pc'[p] = "cCheck"
              /\ OwnFile \in loc'[p].copied
              /\ files' = files \cup loc'[p].copied
              /\ Cardinality(loc'[p].copied) =
                    Cardinality(LoopFiles \cup {OwnFile}) - (faults' - faults)
           \/ /\ pc'[p] = "done"
              /\ faults' > faults
              /\ ret'[p] = Res(FALSE, IoError)]_vars

\* The export of p's update has just returned success; no row has changed
\* since it read them.
ExportDone(p) == loc[p].verb = "update" /\ pc[p] = "xCheck" /\ loc[p].udata.ok

\* What a stored column holds for the export: nothing decodable, or a value.
ColumnDecodes(r, fld) == r[fld].k # "bad"
ColumnValue(r, fld) == IF r[fld].k = "null" THEN FieldDefault(fld) ELSE r[fld].v

\* C22: a JSON decode error in one stored row during _export_user_data drops
\* that row's contribution only: the export returns success, the plugin
\* configuration is empty exactly when the PluginRow has an undecodable column,
\* a module is omitted exactly when its row has one, and every other row's
\* configuration is exported with the decoded value of each column.
C22_DecodeErrorDropsOneRow ==
    \A p \in Procs :
        ExportDone(p)
        => LET u == loc[p].user
               data == loc[p].udata
           IN  /\ \A r \in PluginRowsOf(View(p), u) :
                    IF \A fld \in PluginFields : ColumnDecodes(r, fld)
                    THEN /\ data.plugin_config.present
                         /\ \A fld \in PluginFields :
                                data.plugin_config[fld] = ColumnValue(r, fld)
                    ELSE data.plugin_config = NoPluginConfig
               /\ \A r \in ModuleRowsOf(View(p), u) :
                    IF \A fld \in ModuleFields : ColumnDecodes(r, fld)
                    THEN /\ r.name \in DOMAIN data.modules_config
                         /\ \A fld \in ModuleFields :
                                data.modules_config[r.name][fld] = ColumnValue(r, fld)
                    ELSE r.name \notin DOMAIN data.modules_config
               /\ DOMAIN data.modules_config \subseteq
                    {r.name : r \in ModuleRowsOf(View(p), u)}

\* An export has succeeded over module rows of which one has an undecodable
\* column: the other modules are in the exported configuration.
C22_ExportedAroundBadRow ==
    \E p \in Procs :
        /\ ExportDone(p)
        /\ \E r \in ModuleRowsOf(View(p), loc[p].user) :
                \E fld \in ModuleFields : ~ColumnDecodes(r, fld)
        /\ Cardinality(ModuleRowsOf(View(p), loc[p].user)) = Len(ModuleData)
        /\ Cardinality(DOMAIN loc[p].udata.modules_config) = Len(ModuleData) - 1
        /\ loc[p].udata.plugin_config.present

\* C23: in every committed store state a user has a PluginRow for this slug
\* if and only if they have exactly the 3 ModuleRows that reference it.
C23_PluginRowIffModuleRows ==
    \A u \in Users :
        LET linked == {r \in ModuleRowsOf(store, u) : r.plugin_id = PluginId(u)}
        IN  /\ PluginRowsOf(store, u) # {} => Cardinality(linked) = Len(ModuleData)
            /\ ModuleRowsOf(store, u) # {} => PluginRowsOf(store, u) # {}

\* C23 for the committed states reached while no statement has failed.
C23_PluginRowIffModuleRowsWithoutFault ==
    faults = 0 => C23_PluginRowIffModuleRows

\* C24: with the fallback BaseLifecycleManager, while no statement fails, an
\* install_plugin(u) called when u has no PluginRow succeeds and creates the
\* rows, also on the manager instance that installed u before a delete, and an
\* update_plugin of an installed u succeeds and recreates the rows, also when
\* its target is the instance that installed u.
C24_ReinstallOnSameInstance ==
    \A p \in Procs :
        (Done(p) /\ faults = 0)
        => /\ (loc[p].verb = "install" /\ PluginRowsOf(pre[p].store, loc[p].user) = {})
              => ret[p].success /\ InstalledRows(store, loc[p].user)
           /\ (loc[p].verb = "update" /\ PluginRowsOf(pre[p].store, loc[p].user) # {})
              => ret[p].success /\ InstalledRows(store, loc[p].user)

\* C24 for a manager instance whose active-user set does not hold u at the
\* call.
C24_ReinstallOnOtherInstance ==
    \A p \in Procs :
        (Done(p) /\ faults = 0 /\ loc[p].verb \in {"install", "update"})
        => /\ (/\ loc[p].verb = "install"
               /\ PluginRowsOf(pre[p].store, loc[p].user) = {}
               /\ loc[p].user \notin pre[p].active[loc[p].target])
              => ret[p].success /\ InstalledRows(store, loc[p].user)
           /\ (/\ loc[p].verb = "update"
               /\ PluginRowsOf(pre[p].store, loc[p].user) # {}
               /\ loc[p].user \notin pre[p].active[loc[p].target])
              => ret[p].success /\ InstalledRows(store, loc[p].user)

\* What a call answers when the user's PluginRow exists: get_plugin_status
\* answers installed, install_plugin the 'already installed' failure, having
\* copied no file and written no row.
AnswersInstalled(p) ==
    /\ loc[p].verb = "status" => ret[p].installed
    /\ loc[p].verb = "install"
       => /\ ~ret[p].success
          /\ ret[p].error = "Plugin already installed for user"
          /\ loc[p].copied = {}
          /\ files = pre[p].files
          /\ store = pre[p].store
          /\ pend[p] = pre[p].pend

\* C25: whenever a PluginRow for (u, slug) exists, get_plugin_status(u)
\* returns installed: true and install_plugin(u) returns the 'already
\* installed' failure without copying files or writing rows, also when the
\* existence query fails with a database error.
C25_ExistenceCheckFailsClosed ==
    \A p \in Procs :
        (Done(p) /\ PluginRowsOf(PreView(p), loc[p].user) # {})
        => AnswersInstalled(p)

\* C25 for the calls whose existence query does not raise.
C25_ExistenceCheckWithoutFault ==
    \A p \in Procs :
        (/\ Done(p)
         /\ PluginRowsOf(PreView(p), loc[p].user) # {}
         /\ faults = pre[p].faults)
        => AnswersInstalled(p)

\* C26: update_plugin for a user who has no PluginRow for this slug returns
\* the failure 'Plugin not found for user' and changes nothing: the install of
\* the target version is not entered, no row is written or left pending, no
\* file is copied and no manager state changes.
C26_UpdateOfAbsentUser ==
    \A p \in Procs :
        (/\ Done(p)
         /\ loc[p].verb = "update"
         /\ PluginRowsOf(PreView(p), loc[p].user) = {})
        => /\ ~ret[p].success
           /\ ret[p].error = "Plugin not found for user"
           /\ loc[p].mgr = "-"
           /\ loc[p].copied = {}
           /\ NothingChanged(p)

\* An update of a user without a PluginRow has returned while another user
\* has the plugin installed.
C26_UpdatedAbsentUser ==
    \E p \in Procs :
        /\ Done(p)
        /\ loc[p].verb = "update"
        /\ PluginRowsOf(PreView(p), loc[p].user) = {}
        /\ \E u \in Users \ {loc[p].user} : InstalledRows(store, u)
        /\ ret[p].error = "Plugin not found for user"

\* C27: an existing SettingsInstance is never overwritten or deleted by
\* install, uninstall or update: no call holds a pending deletion of a settings
\* instance, and when a call has returned every settings instance committed
\* before it is still committed, with the value it had.
C27_InstancesKept ==
    \A p \in Procs :
        /\ pend[p].del.inst = {}
        /\ Done(p) => pre[p].store.inst \subseteq store.inst

\* A user whose settings instance the host had changed was uninstalled and is
\* installed again: the instance still holds the changed value.
C27_ReinstalledWithEditedInstance ==
    \E p \in Procs :
        /\ InstallDone(p)
        /\ PluginRowsOf(pre[p].store, loc[p].user) = {}
        /\ \E r \in pre[p].store.inst :
            /\ r.user_id = loc[p].user
            /\ r.value = "edited"
            /\ r \in store.inst
        /\ Cardinality(InstanceRowsOf(store, loc[p].user)) = Len(SettingsInstances)

\* An update has succeeded for a user whose settings instance the host had
\* changed: the instance still holds the changed value.
C27_UpdatedWithEditedInstance ==
    \E p \in Procs :
        /\ Done(p) /\ loc[p].verb = "update" /\ ret[p].success
        /\ \E r \in pre[p].store.inst :
            r.user_id = loc[p].user /\ r.value = "edited" /\ r \in store.inst

\* The rows of tables that user u owns.
OwnedRows(tables, u) ==
    [plugin |-> PluginRowsOf(tables, u),
     module |-> ModuleRowsOf(tables, u),
     inst |-> InstanceRowsOf(tables, u)]

\* Whether a call for u succeeds (for get_plugin_status: answers installed) is
\* settled by u's own rows and the manager's entry for u when no statement of
\* the call fails: other users' rows play no part.
OutcomeFromOwnState(p) ==
    LET u == loc[p].user
        has == PluginRowsOf(PreView(p), u) # {}
    IN  /\ loc[p].verb = "status" => (ret[p].installed <=> has)
        /\ loc[p].verb = "delete" => (ret[p].success <=> has)
        /\ loc[p].verb = "install"
           => /\ has => ~ret[p].success
              /\ (/\ OwnedRows(PreView(p), u).module = {}
                  /\ ~has
                  /\ u \notin pre[p].active[loc[p].mgr]) => ret[p].success
        /\ loc[p].verb = "update"
           => /\ ~has => ~ret[p].success
              /\ (/\ InstalledRows(PreView(p), u)
                  /\ u \notin pre[p].active[loc[p].target]) => ret[p].success

\* C28: user isolation. A call for user u leaves every committed PluginRow,
\* ModuleRow and SettingsInstance of any other user unchanged, and whether it
\* succeeds does not depend on other users having the plugin installed.
C28_UserIsolation ==
    \A p \in Procs :
        Done(p)
        => /\ \A u \in Users \ {loc[p].user} :
                OwnedRows(store, u) = OwnedRows(pre[p].store, u)
           /\ (faults = pre[p].faults /\ pre[p].pend = NoPending)
              => OutcomeFromOwnState(p)

\* C28 for a call that starts on a session with nothing pending: the rows of
\* other users, committed or read by the session, are as they were.
C28_UserIsolationOnCleanSession ==
    \A p \in Procs :
        (Done(p) /\ pre[p].pend = NoPending)
        => /\ \A u \in Users \ {loc[p].user} :
                /\ OwnedRows(store, u) = OwnedRows(pre[p].store, u)
                /\ OwnedRows(View(p), u) = OwnedRows(pre[p].store, u)
           /\ faults = pre[p].faults => OutcomeFromOwnState(p)

====
